---- MODULE Spec2Model ----
(***************************************************************************)
(* Model of parallel_for_each (src/src/parallel_for_each.rs): a pool of    *)
(* worker threads pulling items from a mutex-guarded iterator, a           *)
(* background function on the calling thread, a finished callback run by   *)
(* the last worker, and the resolution of the call's result by the join    *)
(* loop and the crossbeam thread scope.                                    *)
(*                                                                         *)
(* Each action is one critical section of the `state` mutex (from the      *)
(* acquisition of the lock to its release), or one step of a user-supplied *)
(* function that runs with the lock released.                              *)
(***************************************************************************)
EXTENDS Integers, Sequences, FiniteSets, TLC

\* Bounds of the model.
MaxWorkers == 3   \* worker counts 1..MaxWorkers
MaxItems == 2     \* lengths 0..MaxItems of the finite input sequences
MaxPull == 2      \* items pulled from the infinite sequence `0..` before the model stops pulling

Main == -1        \* id of the calling thread
NoItem == -1

VARIABLES
    worker_count,   \* resolved number of worker threads (lines 107-110)
    input,          \* the iterator handed to the call, as it was at the start
    state,          \* the State behind the mutex: iterator: Option<It>, threads_running
    mutex,          \* the parking_lot mutex around state: Free or HeldBy(thread)
    pc,             \* per worker: spawned, init, gotItem, working, callback, done
    item,           \* per worker: the item it pulled last
    thread_state,   \* per worker: its State value: none, alive, dropped
    ret,            \* per worker: how the thread's function ended (return value or panic)
    handle,         \* per worker: the thread's result (what join() yields once done)
    mainPc,         \* calling thread: bg, join, scope, returned
    joinIdx,        \* number of handles the join loop has taken
    closureRes,     \* how the scope closure ended: Ok, Err or Panic
    bgOut,          \* what background_fun did: "", Continue, Stop, Err, Panic
    result,         \* how parallel_for_each ended: Ok, Err or Panic
    aborted,        \* the process was aborted by a panic raised while panicking
    callbackCalls,  \* invocations of finished_callback so far
    workCalls,      \* per worker: the items passed to worker_fun, in order
    sum,            \* the accumulator of the tests' worker_fun
    exhausted,      \* the underlying iterator has returned None
    pastEnd,        \* calls of the underlying iterator's next after it returned None
    bgStopped,      \* the stop after background_fun has cleared the iterator
    failSeq,        \* the workers whose function returned an error, in the order in time
    initCalls,      \* per worker_id: invocations of init_fun with that id
    local,          \* per worker: the State its init_fun call returned, named by that call's worker_id
    stateCalls,     \* per worker: the States it passed to worker_fun
    barrier,        \* init_fun is the rendezvous of the test actual_threads
    count_waiting,  \* the counter of that rendezvous
    drops,          \* per worker: how often its State was dropped
    local_sum,      \* per worker: State::local_sum of the test sum_in_state
    sumInState,     \* the global_sum of that test, added to by State::drop
    pullLog,        \* the items State::next handed out, in the order of the critical sections
    afterStop       \* per worker: worker_fun calls that ended after a stop of the iterator

vars == <<worker_count, input, state, mutex, pc, item, thread_state, ret, handle,
          mainPc, joinIdx, closureRes, bgOut, result, aborted, callbackCalls,
          workCalls, sum, exhausted, pastEnd, bgStopped, failSeq, initCalls, local,
          stateCalls, barrier, count_waiting, drops, local_sum, sumInState, pullLog,
          afterStop>>

Workers == 0 .. (worker_count - 1)

----------------------------------------------------------------------------
\* Values.

None == [some |-> FALSE, val |-> NoItem]
Some(v) == [some |-> TRUE, val |-> v]

\* An error value or a panic payload, identified by the call that produced it.
Val(by, w, i) == [by |-> by, w |-> w, item |-> i]
NoVal == Val("", Main, NoItem)

\* The parking_lot mutex around State: free, or held by a thread.
Free == [held |-> FALSE, by |-> Main]
HeldBy(t) == [held |-> TRUE, by |-> t]

\* lock(): the thread goes on once the mutex is its own.
CanLock(t) == mutex = Free \/ mutex = HeldBy(t)

\* A call of the user's function made with the guard as it is: the mutex stays held.
Unlocked_StillHeld(t) == HeldBy(t)

\* MutexGuard::unlocked(&mut state, f): the mutex is released while f runs.
Unlocked(t) == Free

\* A spawn that hands every worker the id 0.
WorkerId_Zero(w) == 0

\* The worker_id of the w-th spawned thread: the element of 0..worker_count it is mapped from.
WorkerId(w) == w

Running == [kind |-> "Running", tag |-> "", val |-> NoVal]
OkRes == [kind |-> "Ok", tag |-> "", val |-> NoVal]
Panic(payload) == [kind |-> "Panic", tag |-> "", val |-> payload]

\* A map_err of the worker's error that tags it as an init error.
WorkerTaskError_InitTag(source) == [kind |-> "Err", tag |-> "InitTaskError", val |-> source]

InitTaskError(source) == [kind |-> "Err", tag |-> "InitTaskError", val |-> source]
WorkerTaskError(source) == [kind |-> "Err", tag |-> "WorkerTaskError", val |-> source]
BackgroundTaskError(source) == [kind |-> "Err", tag |-> "BackgroundTaskError", val |-> source]

\* The message Result::unwrap panics with; it is no payload of a user function.
UnwrapPayload == Val("unwrap", Main, NoItem)

----------------------------------------------------------------------------
\* The input sequences: the range 0..n, the infinite 0.., and the tests'
\* UglyIterator(n + 1), which yields n times 1, then None, then 1 for ever.

Range(n) == [kind |-> "range", cur |-> 0, end |-> n]
RangeFrom == [kind |-> "from", cur |-> 0, end |-> 0]
UglyIterator(c) == [kind |-> "ugly", cur |-> c, end |-> 0]

Inputs == {Range(n) : n \in 0 .. MaxItems}
            \cup {UglyIterator(n + 1) : n \in 0 .. MaxItems}
            \cup {RangeFrom}

\* Iterator::next of the input sequence.
IterNext(it) ==
    CASE it.kind = "range" ->
            IF it.cur < it.end
            THEN [item |-> Some(it.cur), it |-> [it EXCEPT !.cur = @ + 1]]
            ELSE [item |-> None, it |-> it]
      [] it.kind = "from" ->
            [item |-> Some(it.cur), it |-> [it EXCEPT !.cur = @ + 1]]
      [] it.kind = "ugly" ->
            IF it.cur = 0
            THEN [item |-> Some(1), it |-> it]
            ELSE IF it.cur - 1 = 0
                 THEN [item |-> None, it |-> [it EXCEPT !.cur = @ - 1]]
                 ELSE [item |-> Some(1), it |-> [it EXCEPT !.cur = @ - 1]]

----------------------------------------------------------------------------
\* struct State and its methods.

NoIterator == [present |-> FALSE, it |-> [kind |-> "none", cur |-> 0, end |-> 0]]

\* A stop that leaves the iterator in place.
stop_Noop(st) == st

\* State::stop: self.iterator = None
stop(st) == [st EXCEPT !.iterator = NoIterator]

\* A next with the test of item.is_none() inverted: it stops on an item.
next_StopsOnItem(st) ==
    IF ~st.iterator.present
    THEN [item |-> None, st |-> st, polled |-> FALSE]
    ELSE LET r == IterNext(st.iterator.it)
             st1 == [st EXCEPT !.iterator.it = r.it]
         IN [item |-> r.item,
             st |-> IF r.item.some THEN [st1 EXCEPT !.iterator = NoIterator] ELSE st1,
             polled |-> TRUE]

\* A next that hands out the sequence's current item without advancing it.
next_NoAdvance(st) ==
    IF ~st.iterator.present
    THEN [item |-> None, st |-> st, polled |-> FALSE]
    ELSE LET r == IterNext(st.iterator.it)
         IN [item |-> r.item,
             st |-> IF r.item.some THEN st ELSE stop(st),
             polled |-> TRUE]

\* State::next: the item, the state afterwards, and whether the underlying
\* iterator was polled.
next(st) ==
    IF ~st.iterator.present
    THEN [item |-> None, st |-> st, polled |-> FALSE]
    ELSE LET r == IterNext(st.iterator.it)
             st1 == [st EXCEPT !.iterator.it = r.it]
         IN [item |-> r.item,
             st |-> IF r.item.some THEN st1 ELSE stop(st1),
             polled |-> TRUE]

\* The model pulls at most MaxPull items from the infinite sequence.
CanPull(st) ==
    ~(st.iterator.present /\ st.iterator.it.kind = "from"
        /\ st.iterator.it.cur >= MaxPull)

----------------------------------------------------------------------------
InitCall ==
    /\ worker_count \in 1 .. MaxWorkers
    /\ input \in Inputs
    /\ state = [iterator |-> [present |-> TRUE, it |-> input],
                threads_running |-> worker_count]
    /\ mutex = Free
    /\ pc = [w \in Workers |-> "spawned"]
    /\ item = [w \in Workers |-> NoItem]
    /\ thread_state = [w \in Workers |-> "none"]
    /\ ret = [w \in Workers |-> Running]
    /\ handle = [w \in Workers |-> Running]
    /\ mainPc = "bg"
    /\ joinIdx = 0
    /\ closureRes = Running
    /\ bgOut = ""
    /\ result = Running
    /\ aborted = FALSE
    /\ callbackCalls = 0
    /\ workCalls = [w \in Workers |-> <<>>]
    /\ sum = 0
    /\ exhausted = FALSE
    /\ pastEnd = 0
    /\ bgStopped = FALSE
    /\ failSeq = <<>>
    /\ initCalls = [w \in Workers |-> 0]
    /\ local = [w \in Workers |-> NoItem]
    /\ stateCalls = [w \in Workers |-> {}]
    /\ count_waiting = 0
    /\ drops = [w \in Workers |-> 0]
    /\ local_sum = [w \in Workers |-> 0]
    /\ sumInState = 0
    /\ pullLog = <<>>
    /\ afterStop = [w \in Workers |-> 0]

\* A call with arbitrary init_fun, worker_fun, background_fun and callback.
Init == InitCall /\ barrier = FALSE

\* The calls of Init, and the calls of the test actual_threads, whose init_fun
\* waits until all workers are in it (over a finite range, as in the test).
BarrierInit == InitCall /\ barrier \in BOOLEAN /\ (barrier => input.kind = "range")

----------------------------------------------------------------------------
\* The worker threads (lines 125-147).

\* Bookkeeping of the polls of the underlying iterator made by a call of next.
Polled(r) ==
    /\ exhausted' = (exhausted \/ (r.polled /\ ~r.item.some))
    /\ pastEnd' = IF exhausted /\ r.polled /\ pastEnd < worker_count
                  THEN pastEnd + 1 ELSE pastEnd

\* State::stop has been called: by next at the end of the sequence, by a
\* worker's guard, or by the calling thread.
Stopped ==
    exhausted \/ bgStopped \/ \E w \in Workers : pc[w] \in {"callback", "done"}

\* Bookkeeping of the end of a call of worker_fun.
WorkEnds(w) ==
    afterStop' = [afterStop EXCEPT ![w] = IF Stopped THEN @ + 1 ELSE @]

\* A thread state that is forgotten instead of dropped.
DropState_Forget(w) ==
    /\ thread_state' = [thread_state EXCEPT ![w] = "dropped"]
    /\ drops' = drops
    /\ sumInState' = sumInState

\* The worker's thread_state goes out of scope: State::drop adds local_sum to
\* global_sum (test sum_in_state).
DropState(w) ==
    /\ thread_state' = [thread_state EXCEPT ![w] = "dropped"]
    /\ drops' = [drops EXCEPT ![w] = @ + 1]
    /\ sumInState' = sumInState + local_sum'[w]

\* A guard that calls the callback one decrement early (threads_running <= 1).
WorkerGuard_OffByOne(w, st, res) ==
    LET st1 == stop(st)
        st2 == [st1 EXCEPT !.threads_running = @ - 1]
    IN /\ state' = st2
       /\ ret' = [ret EXCEPT ![w] = res]
       /\ failSeq' = IF res.kind = "Err" THEN Append(failSeq, w) ELSE failSeq
       /\ IF st2.threads_running <= 1
          THEN /\ pc' = [pc EXCEPT ![w] = "callback"]
               /\ callbackCalls' = callbackCalls + 1
               /\ handle' = handle
               /\ mutex' = Unlocked(w)
          ELSE /\ pc' = [pc EXCEPT ![w] = "done"]
               /\ callbackCalls' = callbackCalls
               /\ handle' = [handle EXCEPT ![w] = res]
               /\ mutex' = Free

\* A guard that decrements without stopping the iterator.
WorkerGuard_NoStop(w, st, res) ==
    LET st2 == [st EXCEPT !.threads_running = @ - 1]
    IN /\ state' = st2
       /\ ret' = [ret EXCEPT ![w] = res]
       /\ failSeq' = IF res.kind = "Err" THEN Append(failSeq, w) ELSE failSeq
       /\ IF st2.threads_running = 0
          THEN /\ pc' = [pc EXCEPT ![w] = "callback"]
               /\ callbackCalls' = callbackCalls + 1
               /\ handle' = handle
               /\ mutex' = Unlocked(w)
          ELSE /\ pc' = [pc EXCEPT ![w] = "done"]
               /\ callbackCalls' = callbackCalls
               /\ handle' = [handle EXCEPT ![w] = res]
               /\ mutex' = Free

\* A guard that is disarmed when the thread unwinds: no stop and no decrement
\* after a panic.
WorkerGuard_NotOnUnwind(w, st, res) ==
    LET st1 == IF res.kind = "Panic" THEN st ELSE stop(st)
        st2 == IF res.kind = "Panic" THEN st
               ELSE [st1 EXCEPT !.threads_running = @ - 1]
    IN /\ state' = st2
       /\ ret' = [ret EXCEPT ![w] = res]
       /\ failSeq' = IF res.kind = "Err" THEN Append(failSeq, w) ELSE failSeq
       /\ IF st2.threads_running = 0
          THEN /\ pc' = [pc EXCEPT ![w] = "callback"]
               /\ callbackCalls' = callbackCalls + 1
               /\ handle' = handle
               /\ mutex' = Unlocked(w)
          ELSE /\ pc' = [pc EXCEPT ![w] = "done"]
               /\ callbackCalls' = callbackCalls
               /\ handle' = [handle EXCEPT ![w] = res]
               /\ mutex' = Free

\* The closure of the scopeguard around the lock, run when the worker leaves
\* its function by return or by unwinding, with the lock held: stop, decrement,
\* and the callback (with the lock released) when the count reaches zero;
\* without a callback the guard is dropped, which releases the lock.
WorkerGuard(w, st, res) ==
    LET st1 == stop(st)
        st2 == [st1 EXCEPT !.threads_running = @ - 1]
    IN /\ state' = st2
       /\ ret' = [ret EXCEPT ![w] = res]
       /\ failSeq' = IF res.kind = "Err" THEN Append(failSeq, w) ELSE failSeq
       /\ IF st2.threads_running = 0
          THEN /\ pc' = [pc EXCEPT ![w] = "callback"]
               /\ callbackCalls' = callbackCalls + 1
               /\ handle' = handle
               /\ mutex' = Unlocked(w)
          ELSE /\ pc' = [pc EXCEPT ![w] = "done"]
               /\ callbackCalls' = callbackCalls
               /\ handle' = [handle EXCEPT ![w] = res]
               /\ mutex' = Free

\* The head of the worker's loop, with the lock held: next(), then either the
\* item is taken out of the lock, or the loop breaks, the thread state is
\* dropped and the guard runs.
Loop(w, st) ==
    LET r == next(st)
    IN /\ CanPull(st)
       /\ Polled(r)
       /\ IF r.item.some
          THEN /\ state' = r.st
               /\ pc' = [pc EXCEPT ![w] = "gotItem"]
               /\ item' = [item EXCEPT ![w] = r.item.val]
               /\ pullLog' = Append(pullLog, r.item.val)
               /\ thread_state' = [thread_state EXCEPT ![w] = "alive"]
               /\ mutex' = Unlocked(w)
               /\ UNCHANGED <<ret, handle, callbackCalls, failSeq, drops, sumInState>>
          ELSE /\ DropState(w)
               /\ WorkerGuard(w, r.st, OkRes)
               /\ item' = [item EXCEPT ![w] = NoItem]
               /\ pullLog' = pullLog

\* A thread that calls init_fun with the lock held.
WorkerStart_InitLocked(w) ==
    /\ ~aborted /\ CanLock(w)
    /\ pc[w] = "spawned"
    /\ pc' = [pc EXCEPT ![w] = "init"]
    /\ mutex' = HeldBy(w)
    /\ initCalls' = [initCalls EXCEPT ![WorkerId(w)] = @ + 1]
    /\ count_waiting' = IF barrier THEN count_waiting + 1 ELSE count_waiting
    /\ UNCHANGED <<worker_count, input, state, item, thread_state, ret, handle,
                   mainPc, joinIdx, closureRes, bgOut, result, aborted,
                   callbackCalls, workCalls, sum, exhausted, pastEnd, bgStopped, failSeq,
                   local, stateCalls, barrier, drops, local_sum, sumInState, pullLog,
                   afterStop>>

\* The thread starts: state.lock(), the guard is armed, and the lock is
\* released for init_fun(worker_id), which is entered. The init_fun of the test
\* actual_threads counts the thread in.
WorkerStart(w) ==
    /\ ~aborted /\ CanLock(w)
    /\ pc[w] = "spawned"
    /\ pc' = [pc EXCEPT ![w] = "init"]
    /\ mutex' = Unlocked(w)
    /\ initCalls' = [initCalls EXCEPT ![WorkerId(w)] = @ + 1]
    /\ count_waiting' = IF barrier THEN count_waiting + 1 ELSE count_waiting
    /\ UNCHANGED <<worker_count, input, state, item, thread_state, ret, handle,
                   mainPc, joinIdx, closureRes, bgOut, result, aborted,
                   callbackCalls, workCalls, sum, exhausted, pastEnd, bgStopped, failSeq,
                   local, stateCalls, barrier, drops, local_sum, sumInState, pullLog,
                   afterStop>>

\* init_fun returns Ok(thread_state): the lock is taken again and the loop
\* starts. The init_fun of the test actual_threads returns once all the
\* threads are counted in.
InitOk(w) ==
    /\ ~aborted /\ CanLock(w)
    /\ pc[w] = "init"
    /\ barrier => count_waiting >= worker_count
    /\ local' = [local EXCEPT ![w] = WorkerId(w)]
    /\ local_sum' = [local_sum EXCEPT ![w] = 0]
    /\ Loop(w, state)
    /\ UNCHANGED <<worker_count, input, mainPc, joinIdx, closureRes, bgOut,
                   result, aborted, workCalls, sum, bgStopped, initCalls, stateCalls,
                   barrier, count_waiting, afterStop>>

\* init_fun returns Err(e): map_err to InitTaskError and `?`.
InitErr(w) ==
    /\ ~aborted /\ CanLock(w)
    /\ pc[w] = "init"
    /\ ~barrier
    /\ WorkerGuard(w, state, InitTaskError(Val("init", w, NoItem)))
    /\ UNCHANGED <<worker_count, input, item, thread_state, mainPc, joinIdx,
                   closureRes, bgOut, result, aborted, workCalls, sum, exhausted,
                   pastEnd, bgStopped, initCalls, local, stateCalls, barrier,
                   count_waiting, drops, local_sum, sumInState, pullLog, afterStop>>

\* init_fun panics: the guard runs while the thread unwinds.
InitPanic(w) ==
    /\ ~aborted /\ CanLock(w)
    /\ pc[w] = "init"
    /\ ~barrier
    /\ WorkerGuard(w, state, Panic(Val("init", w, NoItem)))
    /\ UNCHANGED <<worker_count, input, item, thread_state, mainPc, joinIdx,
                   closureRes, bgOut, result, aborted, workCalls, sum, exhausted,
                   pastEnd, bgStopped, initCalls, local, stateCalls, barrier,
                   count_waiting, drops, local_sum, sumInState, pullLog, afterStop>>

\* worker_fun(&mut thread_state, item) begins, the lock being released.
WorkBegin(w) ==
    /\ ~aborted
    /\ pc[w] = "gotItem"
    /\ pc' = [pc EXCEPT ![w] = "working"]
    /\ workCalls' = [workCalls EXCEPT ![w] = Append(@, item[w])]
    /\ stateCalls' = [stateCalls EXCEPT ![w] = @ \cup {local[w]}]
    /\ UNCHANGED <<worker_count, input, state, mutex, item, thread_state, ret, handle,
                   mainPc, joinIdx, closureRes, bgOut, result, aborted,
                   callbackCalls, sum, exhausted, pastEnd, bgStopped, failSeq,
                   initCalls, local, barrier, count_waiting, drops, local_sum,
                   sumInState, pullLog, afterStop>>

\* worker_fun returns Ok(()): the lock is taken again and the loop goes on.
\* The worker_fun of the tests sum and sum_in_state has added the item.
WorkOk(w) ==
    /\ ~aborted /\ CanLock(w)
    /\ pc[w] = "working"
    /\ sum' = sum + item[w]
    /\ local_sum' = [local_sum EXCEPT ![w] = @ + item[w]]
    /\ WorkEnds(w)
    /\ Loop(w, state)
    /\ UNCHANGED <<worker_count, input, mainPc, joinIdx, closureRes, bgOut,
                   result, aborted, workCalls, bgStopped, initCalls, local, stateCalls,
                   barrier, count_waiting>>

\* worker_fun returns Err(e): map_err to WorkerTaskError and `?`.
WorkErr(w) ==
    /\ ~aborted /\ CanLock(w)
    /\ pc[w] = "working"
    /\ local_sum' = local_sum
    /\ WorkEnds(w)
    /\ DropState(w)
    /\ WorkerGuard(w, state, WorkerTaskError(Val("work", w, item[w])))
    /\ UNCHANGED <<worker_count, input, item, mainPc, joinIdx, closureRes,
                   bgOut, result, aborted, workCalls, sum, exhausted, pastEnd,
                   bgStopped, initCalls, local, stateCalls, barrier, count_waiting,
                   pullLog>>

\* worker_fun panics.
WorkPanic(w) ==
    /\ ~aborted /\ CanLock(w)
    /\ pc[w] = "working"
    /\ local_sum' = local_sum
    /\ WorkEnds(w)
    /\ DropState(w)
    /\ WorkerGuard(w, state, Panic(Val("work", w, item[w])))
    /\ UNCHANGED <<worker_count, input, item, mainPc, joinIdx, closureRes,
                   bgOut, result, aborted, workCalls, sum, exhausted, pastEnd,
                   bgStopped, initCalls, local, stateCalls, barrier, count_waiting,
                   pullLog>>

\* finished_callback returns: the lock is taken again, the guard's closure
\* ends, the lock is released and the thread ends with its result.
CallbackOk(w) ==
    /\ ~aborted /\ CanLock(w)
    /\ pc[w] = "callback"
    /\ pc' = [pc EXCEPT ![w] = "done"]
    /\ handle' = [handle EXCEPT ![w] = ret[w]]
    /\ mutex' = Free
    /\ UNCHANGED <<worker_count, input, state, item, thread_state, ret,
                   mainPc, joinIdx, closureRes, bgOut, result, aborted,
                   callbackCalls, workCalls, sum, exhausted, pastEnd, bgStopped, failSeq,
                   initCalls, local, stateCalls, barrier, count_waiting, drops,
                   local_sum, sumInState, pullLog, afterStop>>

\* finished_callback panics. In a thread that returns, the panic unwinds out of
\* the guard and becomes the thread's result; in a thread that is already
\* unwinding from a panic, it is a panic while panicking: the process aborts.
CallbackPanic(w) ==
    /\ ~aborted /\ CanLock(w)
    /\ pc[w] = "callback"
    /\ IF ret[w].kind = "Panic"
       THEN /\ aborted' = TRUE
            /\ UNCHANGED <<pc, handle>>
       ELSE /\ pc' = [pc EXCEPT ![w] = "done"]
            /\ handle' = [handle EXCEPT ![w] = Panic(Val("callback", w, NoItem))]
            /\ UNCHANGED aborted
    /\ mutex' = Free
    /\ UNCHANGED <<worker_count, input, state, item, thread_state, ret,
                   mainPc, joinIdx, closureRes, bgOut, result,
                   callbackCalls, workCalls, sum, exhausted, pastEnd, bgStopped, failSeq,
                   initCalls, local, stateCalls, barrier, count_waiting, drops,
                   local_sum, sumInState, pullLog, afterStop>>

----------------------------------------------------------------------------
\* The calling thread (lines 150-177).

\* A match on the background result that stops on Continue too.
BgContinue_Stops ==
    /\ ~aborted /\ CanLock(Main)
    /\ mainPc = "bg"
    /\ bgOut' = "Continue"
    /\ state' = stop(state)
    /\ mainPc' = "join"
    /\ UNCHANGED <<worker_count, input, mutex, pc, item, thread_state,
                   ret, handle, joinIdx, closureRes, result, aborted, callbackCalls,
                   workCalls, sum, exhausted, pastEnd, bgStopped, failSeq, initCalls,
                   local, stateCalls, barrier, count_waiting, drops, local_sum,
                   sumInState, pullLog, afterStop>>

\* background_fun returns Ok(Continue::Continue): no stop, on to the join loop.
BgContinue ==
    /\ ~aborted
    /\ mainPc = "bg"
    /\ bgOut' = "Continue"
    /\ mainPc' = "join"
    /\ UNCHANGED <<worker_count, input, state, mutex, pc, item, thread_state,
                   ret, handle, joinIdx, closureRes, result, aborted, callbackCalls,
                   workCalls, sum, exhausted, pastEnd, bgStopped, failSeq, initCalls,
                   local, stateCalls, barrier, count_waiting, drops, local_sum,
                   sumInState, pullLog, afterStop>>

\* A call that takes the background function's Stop for a failure.
BgStop_AsError ==
    /\ ~aborted /\ CanLock(Main)
    /\ mainPc = "bg"
    /\ bgOut' = "Stop"
    /\ state' = stop(state)
    /\ bgStopped' = TRUE
    /\ closureRes' = BackgroundTaskError(Val("background", Main, NoItem))
    /\ mainPc' = "scope"
    /\ UNCHANGED <<worker_count, input, mutex, pc, item, thread_state,
                   ret, handle, joinIdx, result, aborted, callbackCalls,
                   workCalls, sum, exhausted, pastEnd, failSeq, initCalls,
                   local, stateCalls, barrier, count_waiting, drops, local_sum,
                   sumInState, pullLog, afterStop>>

\* A match on the background result that treats Stop like Continue: no stop.
BgStop_NoStop ==
    /\ ~aborted /\ CanLock(Main)
    /\ mainPc = "bg"
    /\ bgOut' = "Stop"
    /\ bgStopped' = TRUE
    /\ mainPc' = "join"
    /\ UNCHANGED <<worker_count, input, state, mutex, pc, item, thread_state,
                   ret, handle, joinIdx, closureRes, result, aborted, callbackCalls,
                   workCalls, sum, exhausted, pastEnd, failSeq, initCalls,
                   local, stateCalls, barrier, count_waiting, drops, local_sum,
                   sumInState, pullLog, afterStop>>

\* background_fun returns Ok(Continue::Stop): state.lock().stop(), then the join loop.
BgStop ==
    /\ ~aborted /\ CanLock(Main)
    /\ mainPc = "bg"
    /\ bgOut' = "Stop"
    /\ state' = stop(state)
    /\ bgStopped' = TRUE
    /\ mainPc' = "join"
    /\ UNCHANGED <<worker_count, input, mutex, pc, item, thread_state,
                   ret, handle, joinIdx, closureRes, result, aborted, callbackCalls,
                   workCalls, sum, exhausted, pastEnd, failSeq, initCalls,
                   local, stateCalls, barrier, count_waiting, drops, local_sum,
                   sumInState, pullLog, afterStop>>

\* A closure that looks at the background function's error only after the
\* join loop found no failed worker.
BgErr_AfterJoin ==
    /\ ~aborted /\ CanLock(Main)
    /\ mainPc = "bg"
    /\ bgOut' = "Err"
    /\ state' = stop(state)
    /\ bgStopped' = TRUE
    /\ IF \E w \in Workers : ret[w].kind = "Err"
       THEN /\ closureRes' = ret[CHOOSE w \in Workers : ret[w].kind = "Err"]
            /\ mainPc' = "scope"
       ELSE /\ closureRes' = BackgroundTaskError(Val("background", Main, NoItem))
            /\ mainPc' = "scope"
    /\ UNCHANGED <<worker_count, input, mutex, pc, item, thread_state,
                   ret, handle, joinIdx, result, aborted, callbackCalls,
                   workCalls, sum, exhausted, pastEnd, failSeq, initCalls,
                   local, stateCalls, barrier, count_waiting, drops, local_sum,
                   sumInState, pullLog, afterStop>>

\* background_fun returns Err(e): stop, and `background_result?` leaves the
\* closure before the join loop.
BgErr ==
    /\ ~aborted /\ CanLock(Main)
    /\ mainPc = "bg"
    /\ bgOut' = "Err"
    /\ state' = stop(state)
    /\ bgStopped' = TRUE
    /\ closureRes' = BackgroundTaskError(Val("background", Main, NoItem))
    /\ mainPc' = "scope"
    /\ UNCHANGED <<worker_count, input, mutex, pc, item, thread_state,
                   ret, handle, joinIdx, result, aborted, callbackCalls,
                   workCalls, sum, exhausted, pastEnd, failSeq, initCalls,
                   local, stateCalls, barrier, count_waiting, drops, local_sum,
                   sumInState, pullLog, afterStop>>

\* background_fun panics: defer_on_unwind stops the iterator and the panic
\* unwinds out of the closure.
BgPanic ==
    /\ ~aborted /\ CanLock(Main)
    /\ mainPc = "bg"
    /\ bgOut' = "Panic"
    /\ state' = stop(state)
    /\ bgStopped' = TRUE
    /\ closureRes' = Panic(Val("background", Main, NoItem))
    /\ mainPc' = "scope"
    /\ UNCHANGED <<worker_count, input, mutex, pc, item, thread_state,
                   ret, handle, joinIdx, result, aborted, callbackCalls,
                   workCalls, sum, exhausted, pastEnd, failSeq, initCalls,
                   local, stateCalls, barrier, count_waiting, drops, local_sum,
                   sumInState, pullLog, afterStop>>

\* A join loop that goes on after an error and returns the last one it met.
Join_LastError ==
    /\ ~aborted
    /\ mainPc = "join"
    /\ pc[joinIdx] = "done"
    /\ joinIdx' = joinIdx + 1
    /\ IF handle[joinIdx].kind = "Panic"
       THEN closureRes' = handle[joinIdx] /\ mainPc' = "scope"
       ELSE /\ closureRes' = IF handle[joinIdx].kind = "Err" THEN handle[joinIdx]
                             ELSE closureRes
            /\ IF joinIdx + 1 = worker_count
               THEN /\ mainPc' = "scope"
                    /\ closureRes'.kind \in {"Ok", "Err", "Running"}
               ELSE mainPc' = mainPc
    /\ UNCHANGED <<worker_count, input, state, mutex, pc, item, thread_state,
                   ret, handle, bgOut, result, aborted, callbackCalls,
                   workCalls, sum, exhausted, pastEnd, bgStopped, failSeq, initCalls,
                   local, stateCalls, barrier, count_waiting, drops, local_sum,
                   sumInState, pullLog, afterStop>>

\* One iteration of `for handle in handles`: join the next worker, in spawn
\* order. Ok(Ok(())) goes on (and ends the closure with Ok(()) after the last
\* handle), Ok(Err(e)) returns Err(e), Err(p) resumes the panic.
Join ==
    /\ ~aborted
    /\ mainPc = "join"
    /\ pc[joinIdx] = "done"
    /\ joinIdx' = joinIdx + 1
    /\ IF handle[joinIdx].kind = "Ok"
       THEN IF joinIdx + 1 = worker_count
            THEN closureRes' = OkRes /\ mainPc' = "scope"
            ELSE UNCHANGED <<closureRes, mainPc>>
       ELSE closureRes' = handle[joinIdx] /\ mainPc' = "scope"
    /\ UNCHANGED <<worker_count, input, state, mutex, pc, item, thread_state,
                   ret, handle, bgOut, result, aborted, callbackCalls,
                   workCalls, sum, exhausted, pastEnd, bgStopped, failSeq, initCalls,
                   local, stateCalls, barrier, count_waiting, drops, local_sum,
                   sumInState, pullLog, afterStop>>

\* What crossbeam's scope and the `.unwrap()?` after it make of the closure's
\* end and of the panics of the threads the closure did not join: a panic of
\* the closure is resumed; else a panicked thread makes scope return Err, on
\* which unwrap panics; else the closure's value is the call's.
ScopeResult(closure, unjoinedPanics) ==
    IF closure.kind = "Panic" THEN closure
    ELSE IF unjoinedPanics # {} THEN Panic(UnwrapPayload)
    ELSE closure

\* An end of the call that does not wait for the threads the closure left
\* unjoined (plain detached threads instead of a scope).
ScopeExit_NoJoin ==
    /\ ~aborted
    /\ mainPc = "scope"
    /\ result' = ScopeResult(closureRes,
                    {w \in Workers : w >= joinIdx /\ handle[w].kind = "Panic"})
    /\ mainPc' = "returned"
    /\ UNCHANGED <<worker_count, input, state, mutex, pc, item, thread_state,
                   ret, handle, joinIdx, closureRes, bgOut, aborted, callbackCalls,
                   workCalls, sum, exhausted, pastEnd, bgStopped, failSeq, initCalls,
                   local, stateCalls, barrier, count_waiting, drops, local_sum,
                   sumInState, pullLog, afterStop>>

\* The end of the scope: the threads not joined yet are joined, then the
\* call returns or unwinds.
ScopeExit ==
    /\ ~aborted
    /\ mainPc = "scope"
    /\ \A w \in Workers : pc[w] = "done"
    /\ result' = ScopeResult(closureRes,
                    {w \in Workers : w >= joinIdx /\ handle[w].kind = "Panic"})
    /\ mainPc' = "returned"
    /\ UNCHANGED <<worker_count, input, state, mutex, pc, item, thread_state,
                   ret, handle, joinIdx, closureRes, bgOut, aborted, callbackCalls,
                   workCalls, sum, exhausted, pastEnd, bgStopped, failSeq, initCalls,
                   local, stateCalls, barrier, count_waiting, drops, local_sum,
                   sumInState, pullLog, afterStop>>

----------------------------------------------------------------------------
Next ==
    \/ \E w \in Workers : WorkerStart(w)
    \/ \E w \in Workers : InitOk(w)
    \/ \E w \in Workers : InitErr(w)
    \/ \E w \in Workers : InitPanic(w)
    \/ \E w \in Workers : WorkBegin(w)
    \/ \E w \in Workers : WorkOk(w)
    \/ \E w \in Workers : WorkErr(w)
    \/ \E w \in Workers : WorkPanic(w)
    \/ \E w \in Workers : CallbackOk(w)
    \/ \E w \in Workers : CallbackPanic(w)
    \/ BgContinue
    \/ BgStop
    \/ BgErr
    \/ BgPanic
    \/ Join
    \/ ScopeExit

Spec == Init /\ [][Next]_vars

\* Fair scheduling: a thread that can take a step takes one eventually, and a
\* call of a user-supplied function that has begun ends (somehow) eventually.
WorkerStep(w) ==
    /\ w \in Workers
    /\ \/ WorkerStart(w) \/ InitOk(w) \/ InitErr(w) \/ InitPanic(w)
       \/ WorkBegin(w) \/ WorkOk(w) \/ WorkErr(w) \/ WorkPanic(w)
       \/ CallbackOk(w) \/ CallbackPanic(w)

MainStep == BgContinue \/ BgStop \/ BgErr \/ BgPanic \/ Join \/ ScopeExit

FairSpec ==
    /\ Spec
    /\ \A w \in 0 .. (MaxWorkers - 1) : WF_vars(WorkerStep(w))
    /\ WF_vars(MainStep)

\* The same program and scheduling, started from BarrierInit.
BarrierSpec ==
    /\ BarrierInit /\ [][Next]_vars
    /\ \A w \in 0 .. (MaxWorkers - 1) : WF_vars(WorkerStep(w))
    /\ WF_vars(MainStep)

----------------------------------------------------------------------------
\* Notions the properties are stated in.

RECURSIVE SetSum(_, _)
SetSum(f(_), S) ==
    IF S = {} THEN 0 ELSE LET x == CHOOSE y \in S : TRUE IN f(x) + SetSum(f, S \ {x})

\* Number of worker_fun invocations worker w made on item i, and by all workers.
CallsOf(w, i) == Cardinality({k \in 1 .. Len(workCalls[w]) : workCalls[w][k] = i})
CallsOn(i) == LET c(w) == CallsOf(w, i) IN SetSum(c, Workers)
TotalCalls == LET c(w) == Len(workCalls[w]) IN SetSum(c, Workers)

Returned == mainPc = "returned"

\* Every init_fun and worker_fun call so far succeeded, and all workers have left their loops.
WorkersSucceeded == \A w \in Workers : ret[w].kind = "Ok"

----------------------------------------------------------------------------
\* C1: the finished callback is invoked at most once, and from the moment it
\* is invoked every worker has left init_fun and its last worker_fun call for
\* good: no worker is spawned-but-not-started, in init_fun, holding an item or
\* in worker_fun, and the iterator is cleared, so nothing can be pulled.
C1_CallbackOnceAfterAllWorkers ==
    /\ callbackCalls <= 1
    /\ callbackCalls = 1 =>
          /\ \A w \in Workers : pc[w] \in {"callback", "done"}
          /\ ~state.iterator.present
          /\ state.threads_running = 0

\* The last of several workers is in the callback, and the workers did work.
C1_Witness ==
    /\ worker_count = MaxWorkers
    /\ callbackCalls = 1
    /\ \E w \in Workers : pc[w] = "callback"
    /\ \A w \in Workers : Len(workCalls[w]) > 0 \/ pc[w] = "callback"
    /\ TotalCalls >= 2

\* C2: when the call has returned or unwound to the caller, whatever the
\* outcome, the finished callback has been invoked exactly once and has ended.
C2_CallbackBeforeReturn ==
    Returned =>
        /\ callbackCalls = 1
        /\ \A w \in Workers : pc[w] = "done"

\* The call unwinds with the callback's own panic, the background function
\* having stopped the workers.
C2_Witness ==
    /\ Returned
    /\ result.kind = "Panic"
    /\ result.val.by = "callback"
    /\ bgOut = "Stop"
    /\ callbackCalls = 1

\* C3: with the finite input 0..n, a background function that returns Continue
\* and init and worker calls that all succeed, no item is ever passed to
\* worker_fun twice, and once the call has ended every item of 0..n has been
\* passed exactly once, so that the sum is n * (n - 1) / 2.
C3_EveryItemOnce ==
    input.kind = "range" =>
        /\ \A i \in 0 .. (input.end - 1) : CallsOn(i) <= 1
        /\ (Returned /\ bgOut = "Continue" /\ WorkersSucceeded) =>
              /\ \A i \in 0 .. (input.end - 1) : CallsOn(i) = 1
              /\ TotalCalls = input.end
              /\ 2 * sum = input.end * (input.end - 1)

\* The longest range, shared out between two workers.
C3_Witness ==
    /\ Returned /\ result.kind = "Ok" /\ bgOut = "Continue"
    /\ input = Range(MaxItems)
    /\ Cardinality({w \in Workers : Len(workCalls[w]) > 0}) >= 2

\* C4: the underlying iterator is never polled again after it has returned
\* None; with the UglyIterator of n items at most n items are passed to
\* worker_fun, and exactly n (sum n) when nothing stops the workers early.
C4_NoPollPastEnd ==
    /\ pastEnd = 0
    /\ input.kind = "ugly" =>
          /\ TotalCalls <= input.cur - 1
          /\ (Returned /\ bgOut = "Continue" /\ WorkersSucceeded) =>
                (TotalCalls = input.cur - 1 /\ sum = input.cur - 1)

\* The UglyIterator has reported its end and two more workers have called next.
C4_Witness ==
    /\ input = UglyIterator(MaxItems + 1)
    /\ exhausted
    /\ Returned /\ result.kind = "Ok"
    /\ TotalCalls = MaxItems
    /\ worker_count >= 2

\* C5: with the infinite input, once the stop that follows a background
\* result of Stop has cleared the iterator, no worker_fun invocation begins.
\* (As claimed; the code lets a worker that pulled its item before the stop
\* begin worker_fun on it afterwards.)
BgStopCleared == bgStopped /\ bgOut = "Stop" /\ input.kind = "from"

C5_NoWorkBeginsAfterStop ==
    [][BgStopCleared => workCalls' = workCalls]_vars

\* C5, amended: with the infinite input, once the stop that follows a
\* background result of Stop has cleared the iterator, no item is pulled any
\* more (the iterator stays cleared and no worker comes to hold a new item),
\* and a worker_fun invocation that begins then is on the item its worker
\* pulled before the stop.
C5_NoPullAfterStop ==
    [][BgStopCleared =>
        /\ ~state.iterator.present /\ ~state'.iterator.present
        /\ \A w \in Workers :
              /\ pc'[w] = "gotItem" => (pc[w] = "gotItem" /\ item'[w] = item[w])
              /\ workCalls'[w] # workCalls[w] =>
                    (pc[w] = "gotItem" /\ workCalls'[w] = Append(workCalls[w], item[w]))
      ]_vars

\* After the stop a worker still holds an item on which worker_fun has not begun.
C5_Witness ==
    /\ BgStopCleared
    /\ \E w \in Workers : pc[w] = "gotItem"
    /\ \E w \in Workers : pc[w] = "done"

\* C6: under fair scheduling, whenever the input is finite, or the background
\* function returned Stop or Err or panicked, or an init or worker call failed
\* or panicked, eventually every worker has terminated and the call has
\* returned or unwound to its caller.
Trigger ==
    \/ input.kind # "from"
    \/ bgOut \in {"Stop", "Err", "Panic"}
    \/ \E w \in Workers : ret[w].kind \in {"Err", "Panic"}

Terminated == Returned /\ \A w \in Workers : pc[w] = "done"

C6_EventuallyReturns == [](Trigger => <>Terminated)

\* C7: when a panic was raised in init_fun, worker_fun, the background
\* function or the finished callback, the process is not aborted and the call
\* unwinds to its caller with the payload of such a panic.
PanicPayloads ==
    {ret[w].val : w \in {v \in Workers : ret[v].kind = "Panic"}}
        \cup {handle[w].val : w \in {v \in Workers : handle[v].kind = "Panic"}}
        \cup (IF bgOut = "Panic" THEN {Val("background", Main, NoItem)} ELSE {})

C7_PanicReachesCaller ==
    /\ ~aborted
    /\ (Returned /\ PanicPayloads # {}) =>
          (result.kind = "Panic" /\ result.val \in PanicPayloads)

\* C8: when a worker thread panicked and another worker or the background
\* function returned an error, the call does not return an error: it panics
\* with the payload of a panicking worker.
WorkerPanics == {ret[w].val : w \in {v \in Workers : ret[v].kind = "Panic"}}

C8_WorkerPanicBeatsError ==
    (/\ Returned
     /\ WorkerPanics # {}
     /\ (bgOut = "Err" \/ \E w \in Workers : ret[w].kind = "Err")) =>
        (result.kind = "Panic" /\ result.val \in WorkerPanics)

\* C9: when nothing panicked, the call returns an error exactly if init_fun,
\* worker_fun or the background function returned one, and the error returned
\* carries a value one of them returned, unchanged, under the variant of the
\* kind of function that returned it.
NoPanic == ~aborted /\ PanicPayloads = {}

ErrorValues ==
    {ret[w].val : w \in {v \in Workers : ret[v].kind = "Err"}}
        \cup (IF bgOut = "Err" THEN {Val("background", Main, NoItem)} ELSE {})

VariantOf(by) ==
    CASE by = "init" -> "InitTaskError"
      [] by = "work" -> "WorkerTaskError"
      [] by = "background" -> "BackgroundTaskError"
      [] OTHER -> "none"

C9_ErrorVariantAndValue ==
    (Returned /\ NoPanic) =>
        /\ result.kind \in {"Ok", "Err"}
        /\ result.kind = "Err" <=> ErrorValues # {}
        /\ result.kind = "Err" =>
              (result.val \in ErrorValues /\ result.tag = VariantOf(result.val.by))

\* A worker_fun error is returned although another worker's init_fun failed too.
C9_Witness ==
    /\ Returned /\ NoPanic
    /\ result.tag = "WorkerTaskError"
    /\ result.val.item = 1
    /\ \E w \in Workers : ret[w].tag = "InitTaskError"

\* C10: when nothing panicked and several workers returned errors, the call
\* returns the error of the failing worker with the lowest worker_id. (As
\* claimed; the code returns the background function's error when it has one.)
FailedWorkers == {w \in Workers : ret[w].kind = "Err"}
LowestFailed == CHOOSE w \in FailedWorkers : \A v \in FailedWorkers : w <= v

C10_LowestFailedWorkerWins ==
    (Returned /\ NoPanic /\ Cardinality(FailedWorkers) >= 2) =>
        result = ret[LowestFailed]

\* C10, amended: when nothing panicked, the background function returned no
\* error and several workers returned errors, the call returns the error of
\* the failing worker with the lowest worker_id, whatever the order in time of
\* the failures.
C10_LowestFailedWorkerWinsUnlessBgErr ==
    (Returned /\ NoPanic /\ bgOut # "Err" /\ Cardinality(FailedWorkers) >= 2) =>
        result = ret[LowestFailed]

\* All workers failed, the highest first and the lowest last, and the lowest's
\* error is returned.
C10_Witness ==
    /\ Returned /\ NoPanic /\ bgOut # "Err"
    /\ worker_count = MaxWorkers
    /\ Len(failSeq) = worker_count
    /\ \A k \in 1 .. Len(failSeq) : failSeq[k] = worker_count - k
    /\ result = ret[0]

----------------------------------------------------------------------------
\* C11: on every way out of the call (success, the early returns on an error
\* of the background function or of a joined worker, a worker's panic, the
\* background function's panic) every one of the worker_count threads has
\* ended, and has left its result, before the call returns or unwinds.
C11_AllWorkersEndedAtExit ==
    mainPc = "returned" =>
        \A w \in Workers : pc[w] = "done" /\ handle[w] # Running

\* The call returned the error of worker 0 with the other workers, one of
\* which had taken work, still unjoined.
C11_Witness ==
    /\ mainPc = "returned"
    /\ worker_count = MaxWorkers
    /\ result.tag = "WorkerTaskError"
    /\ joinIdx = 1
    /\ \E w \in Workers : w > 0 /\ Len(workCalls[w]) >= 1

\* C12: init_fun is invoked exactly once for each worker_id of 0 ..
\* worker_count - 1, as soon as the worker has started and whether or not the
\* iterator is already stopped, and the state a worker passes to worker_fun is
\* the one the init_fun call of that worker's id returned.
C12_InitOncePerWorkerOwnState ==
    /\ \A id \in Workers : initCalls[id] = IF pc[id] = "spawned" THEN 0 ELSE 1
    /\ \A w \in Workers : local[w] \in {NoItem, w} /\ stateCalls[w] \subseteq {w}
    /\ mainPc = "returned" => \A id \in Workers : initCalls[id] = 1

\* A worker is in its init_fun call after the iterator was stopped, while a
\* peer has passed its own state to worker_fun.
C12_Witness ==
    \E w, v \in Workers :
        /\ pc[w] = "init" /\ initCalls[w] = 1
        /\ ~state.iterator.present
        /\ v # w /\ stateCalls[v] = {v}

\* C13: with an init_fun that returns only once all worker_count workers are
\* inside it, the call does not deadlock: a spawned worker can always enter
\* init_fun, whatever its peers are doing, and every worker's init_fun
\* eventually returns its state.
AllPassed == \A w \in Workers : local[w] # NoItem

C13_BarrierInitPasses ==
    /\ [](\A w \in Workers : pc[w] = "spawned" => ENABLED WorkerStart(w))
    /\ [](barrier => <>AllPassed)

\* All the workers are inside the waiting init_fun at the same time.
C13_Witness ==
    /\ barrier
    /\ worker_count = MaxWorkers
    /\ count_waiting = worker_count
    /\ \A w \in Workers : pc[w] = "init"

\* C14: the call returns Ok(()) exactly when no init_fun, no worker_fun and
\* not the background function returned an error and nothing panicked; a Stop
\* of the background function is no failure.
C14_OkIffNoErrorNoPanic ==
    Returned => (result = OkRes <=> (ErrorValues = {} /\ PanicPayloads = {}))

\* A run stopped by the background function, in which work was done, returned Ok(()).
C14_Witness ==
    /\ Returned
    /\ result = OkRes
    /\ bgOut = "Stop"
    /\ worker_count = MaxWorkers
    /\ TotalCalls >= 1

\* C15: the state an init_fun call returned is dropped exactly once, on every
\* way its worker leaves (end of the sequence, an error of worker_fun, a stop
\* by a peer or by the calling thread, a panic of worker_fun), by the time the
\* worker's guard has run and so before the call returns; the partial sums
\* the states add to the shared total when dropped make the total that adding
\* each item to it directly makes.
C15_StateDroppedOnce ==
    /\ \A w \in Workers :
        /\ drops[w] <= 1
        /\ drops[w] = 1 => local[w] # NoItem
        /\ pc[w] \in {"callback", "done"} =>
              drops[w] = IF local[w] # NoItem THEN 1 ELSE 0
    /\ Returned => sumInState = sum

\* The call unwound from a panic of worker_fun; the panicking worker's state
\* and that of a peer with a partial sum were dropped.
C15_Witness ==
    /\ Returned
    /\ \E w, v \in Workers :
        /\ ret[w].kind = "Panic" /\ ret[w].val.by = "work" /\ drops[w] = 1
        /\ v # w /\ local_sum[v] >= 1 /\ drops[v] = 1
    /\ sumInState = sum

\* C16: the iterator of the shared state is present at the start; once any
\* stop has cleared it (at the end of the sequence in next, in a worker's
\* guard, or by the calling thread) it is never present again; on a cleared
\* iterator stop changes nothing, and next returns None and neither changes
\* the state nor polls the sequence.
C16_IteratorClearedForGood ==
    /\ state.iterator.present
    /\ [](Stopped => ~state.iterator.present)
    /\ [](~state.iterator.present =>
            /\ stop(state) = state
            /\ next(state) = [item |-> None, st |-> state, polled |-> FALSE])
    /\ [][~state.iterator.present => ~state'.iterator.present]_vars

\* After the calling thread's stop of an infinite sequence a worker called
\* next, got None and ended, and the sequence was not polled to its end.
C16_Witness ==
    /\ input.kind = "from"
    /\ bgStopped /\ ~state.iterator.present
    /\ ~exhausted
    /\ \E w \in Workers : pc[w] = "done" /\ ret[w] = OkRes /\ Len(workCalls[w]) >= 1

\* C17: threads_running starts at worker_count and always equals
\* worker_count minus the number of workers whose guard has run; it only goes
\* down, by one per worker and on every way a worker leaves, and never below
\* zero; the callback is invoked by the worker whose decrement makes it zero
\* and by no other.
Cleaned == {w \in Workers : pc[w] \in {"callback", "done"}}

C17_ThreadsRunningCountsLiveWorkers ==
    /\ state.threads_running = worker_count
    /\ [](/\ state.threads_running = worker_count - Cardinality(Cleaned)
          /\ state.threads_running >= 0)
    /\ [][/\ state'.threads_running \in
                {state.threads_running, state.threads_running - 1}
          /\ callbackCalls' \in {callbackCalls, callbackCalls + 1}
          /\ callbackCalls' # callbackCalls <=>
                (state.threads_running = 1 /\ state'.threads_running = 0)
          /\ \A w \in Workers :
                (pc[w] # "callback" /\ pc'[w] = "callback") <=>
                    (w \notin Cleaned /\ pc'[w] # pc[w]
                        /\ state'.threads_running = 0)]_vars

\* The three workers left in three ways (Ok, an error, a panic), the count is
\* zero and the callback was invoked once.
C17_Witness ==
    /\ worker_count = MaxWorkers
    /\ state.threads_running = 0
    /\ callbackCalls = 1
    /\ \E w \in Workers : ret[w].kind = "Ok"
    /\ \E w \in Workers : ret[w].kind = "Err"
    /\ \E w \in Workers : ret[w].kind = "Panic"

\* C18: init_fun, worker_fun and the callback run in a thread that does not
\* hold the mutex, and so does the background function; while any of them
\* runs, the calling thread and every worker can take the mutex.
InUserFunction(w) == pc[w] \in {"init", "gotItem", "working", "callback"}

C18_UserFunctionsRunUnlocked ==
    /\ \A w \in Workers : InUserFunction(w) => mutex # HeldBy(w)
    /\ mainPc = "bg" => mutex # HeldBy(Main)
    /\ (mainPc = "bg" \/ \E w \in Workers : InUserFunction(w)) =>
          CanLock(Main) /\ \A v \in Workers : CanLock(v)

\* The background function, an init_fun and a worker_fun run at the same time.
C18_Witness ==
    /\ mainPc = "bg"
    /\ \E w, v \in Workers : pc[w] = "init" /\ pc[v] = "working"
    /\ mutex = Free

\* C19: the pulls are made one at a time, by a thread that has the mutex: the
\* k-th item handed out is the k-th item of the sequence, each item handed out
\* goes to one worker, and workers never get the same item of a sequence
\* without repetitions.
RECURSIVE Nth(_, _)
Nth(it, k) ==
    LET r == IterNext(it)
    IN IF k = 1 \/ ~r.item.some THEN r.item ELSE Nth(r.it, k - 1)

Received(w) ==
    {workCalls[w][k] : k \in 1 .. Len(workCalls[w])}
        \cup (IF pc[w] = "gotItem" THEN {item[w]} ELSE {})

Holding == Cardinality({w \in Workers : pc[w] = "gotItem"})

C19_PullsLinearized ==
    /\ [](/\ \A k \in 1 .. Len(pullLog) : Nth(input, k) = Some(pullLog[k])
          /\ Len(pullLog) = TotalCalls + Holding
          /\ input.kind \in {"range", "from"} =>
                \A w, v \in Workers : w # v => Received(w) \cap Received(v) = {})
    /\ [][pullLog' # pullLog =>
            /\ Len(pullLog') = Len(pullLog) + 1
            /\ \E w \in Workers :
                /\ CanLock(w)
                /\ pc'[w] = "gotItem" /\ item'[w] = pullLog'[Len(pullLog')]
                /\ \A v \in Workers \ {w} : pc'[v] = pc[v] /\ item'[v] = item[v]]_vars

\* Two workers took the two items of a sequence, the higher worker the first item.
C19_Witness ==
    /\ input.kind = "range"
    /\ pullLog = <<0, 1>>
    /\ \E w, v \in Workers : w > v /\ Received(w) = {0} /\ Received(v) = {1}

\* C20: once a stop was made, next returns None; a worker that is in
\* worker_fun stays in it until the call ends, then gets None from next and
\* ends; so at most one call of worker_fun per worker ends after the stop.
AfterStopTotal == LET c(w) == afterStop[w] IN SetSum(c, Workers)

C20_CooperativeCancellation ==
    /\ [](/\ Stopped => next(state).item = None
          /\ \A w \in Workers : afterStop[w] <= 1
          /\ AfterStopTotal <= worker_count)
    /\ [][\A w \in Workers :
            (Stopped /\ pc[w] = "working" /\ pc'[w] # "working") =>
                /\ afterStop'[w] = afterStop[w] + 1
                /\ pc'[w] \in {"callback", "done"}]_vars

\* After the calling thread's stop two workers each ended a call of
\* worker_fun and then ended with Ok(()).
C20_Witness ==
    /\ bgStopped
    /\ \E w, v \in Workers :
        /\ w # v
        /\ afterStop[w] = 1 /\ afterStop[v] = 1
        /\ pc[w] = "done" /\ pc[v] = "done"
        /\ ret[w] = OkRes /\ ret[v] = OkRes

----------------------------------------------------------------------------
\* C21: a worker's guard stops the iterator whenever it runs, in the critical
\* section of its decrement: once any worker has left (at the end of the
\* sequence, on an error of init_fun or worker_fun, on a panic) the iterator
\* is cleared; no item is handed out after a worker that failed or panicked
\* has run its guard; a worker whose init_fun failed has no state and never
\* pulled an item.
FailedOrPanicked(w) == ret[w].kind \in {"Err", "Panic"}

C21_GuardStopsIterator ==
    /\ [](/\ Cleaned # {} => ~state.iterator.present
          /\ state.threads_running < worker_count => ~state.iterator.present
          /\ \A w \in Workers :
                (FailedOrPanicked(w) /\ ret[w].val.by = "init") =>
                    /\ local[w] = NoItem /\ thread_state[w] = "none"
                    /\ workCalls[w] = <<>> /\ item[w] = NoItem)
    /\ [][(\E w \in Cleaned : FailedOrPanicked(w)) => pullLog' = pullLog]_vars

\* A worker's init_fun failed on an infinite sequence while a peer was in
\* worker_fun: the iterator is cleared and the failed worker pulled nothing.
C21_Witness ==
    /\ input.kind = "from"
    /\ ~bgStopped
    /\ ~state.iterator.present
    /\ \E w, v \in Workers :
        /\ pc[w] = "done" /\ ret[w].kind = "Err" /\ ret[w].val.by = "init"
        /\ workCalls[w] = <<>>
        /\ pc[v] = "working"

\* C22: when the background function panics, the iterator is stopped, every
\* worker then ends (on an infinite sequence too), and the panic reaches the
\* caller, after every worker has ended and the callback was invoked.
BgPanicReached ==
    /\ Returned
    /\ result = Panic(Val("background", Main, NoItem))
    /\ \A w \in Workers : pc[w] = "done"
    /\ callbackCalls = 1

C22_BgPanicReachesCaller ==
    /\ [](bgOut = "Panic" => ~state.iterator.present)
    /\ [](bgOut = "Panic" => <>BgPanicReached)

\* C23: the background function's Continue does nothing to the shared state:
\* the step leaves the iterator and threads_running as they are; and on an
\* infinite sequence, after Continue and as long as no function failed or
\* panicked, the iterator stays present and every worker stays live.
NoWorkerFailed == \A w \in Workers : ~FailedOrPanicked(w)

C23_ContinueLeavesStateAlone ==
    /\ [](/\ input.kind = "from" /\ bgOut = "Continue" /\ NoWorkerFailed =>
                /\ state.iterator.present
                /\ state.threads_running = worker_count
                /\ ~Stopped)
    /\ [][(bgOut = "" /\ bgOut' = "Continue") => state' = state]_vars

\* After Continue the workers have pulled what the model pulls of the infinite
\* sequence, and the iterator is present with all workers live.
C23_Witness ==
    /\ input.kind = "from"
    /\ bgOut = "Continue"
    /\ worker_count = MaxWorkers
    /\ Len(pullLog) = MaxPull
    /\ TotalCalls = MaxPull
    /\ state.iterator.present
    /\ state.threads_running = worker_count

\* C24: when the background function returns Err(e) and nothing panics, the
\* iterator is stopped and the call returns BackgroundTaskError with e,
\* whichever workers returned errors of init_fun or worker_fun too: no
\* worker's result is looked at.
C24_BackgroundErrorWins ==
    /\ bgOut = "Err" => ~state.iterator.present /\ joinIdx = 0
    /\ (Returned /\ bgOut = "Err" /\ NoPanic) =>
          result = BackgroundTaskError(Val("background", Main, NoItem))

\* The call returned the background function's error although worker 0's
\* init_fun and a peer's worker_fun had returned errors.
C24_Witness ==
    /\ Returned /\ NoPanic
    /\ bgOut = "Err"
    /\ result.tag = "BackgroundTaskError"
    /\ ret[0].tag = "InitTaskError"
    /\ \E w \in Workers : ret[w].tag = "WorkerTaskError"

\* C25: on an infinite sequence, with an init_fun and a worker_fun that
\* neither fail nor panic, the callback is not invoked while the background
\* function runs: until it has returned or panicked every worker is live, the
\* iterator is present and no worker's guard has run.
C25_NoCallbackWhileBackgroundRuns ==
    (input.kind = "from" /\ mainPc = "bg" /\ NoWorkerFailed) =>
        /\ callbackCalls = 0
        /\ state.threads_running >= 1
        /\ state.threads_running = worker_count
        /\ Cleaned = {}

\* The background function still runs while a worker has ended a call of
\* worker_fun on the infinite sequence and is in its next one, and a peer is
\* in init_fun.
C25_Witness ==
    /\ input.kind = "from"
    /\ mainPc = "bg"
    /\ worker_count = MaxWorkers
    /\ \E w, v \in Workers :
        /\ Len(workCalls[w]) = MaxPull /\ pc[w] = "working"
        /\ pc[v] = "init"
    /\ callbackCalls = 0

\* C26: a worker's state is dropped before its guard decrements
\* threads_running, on every way the worker leaves, unwinding included: a
\* worker whose state is alive is counted in threads_running, and when the
\* callback is invoked no state is alive and all the states' sums are in the
\* shared total.
Alive == {w \in Workers : thread_state[w] = "alive"}

C26_StateDroppedBeforeDecrement ==
    /\ Cardinality(Alive) <= state.threads_running
    /\ Alive \cap Cleaned = {}
    /\ callbackCalls >= 1 =>
          /\ Alive = {}
          /\ \A w \in Workers : drops[w] = IF local[w] # NoItem THEN 1 ELSE 0
          /\ sumInState = sum

\* The callback is being invoked after the last worker unwound from a panic
\* of worker_fun; its state and a peer's state with a partial sum are dropped.
C26_Witness ==
    /\ \E w, v \in Workers :
        /\ pc[w] = "callback"
        /\ ret[w].kind = "Panic" /\ ret[w].val.by = "work" /\ drops[w] = 1
        /\ v # w /\ local_sum[v] >= 1 /\ drops[v] = 1
    /\ sumInState = sum
    /\ sumInState >= 1

====
